---- MODULE Spec2Model ----
(***************************************************************************)
(* Model of itis::HashTable (src/src/hash_table.cpp): a separate-chaining  *)
(* hash table from int keys to string values.  The state is the object's   *)
(* fields buckets_, num_keys_ and load_factor_; there is one action per    *)
(* public operation (constructor, Put, Remove, Search).  The load factor   *)
(* is a double in the code; it is modelled as an exact fraction <<n, d>>   *)
(* with d > 0, and only fractions that a double represents exactly and     *)
(* whose comparison with num_keys_ / capacity is exact are drawn.          *)
(***************************************************************************)
EXTENDS Integers, Sequences, FiniteSets

VARIABLES
  pc,            \* "new" (before the constructor ran), "ready", "threw"
  args,          \* the constructor's arguments [capacity, load_factor]
  buckets_,      \* std::vector<Bucket>: a sequence of sequences of <<key, value>>
  num_keys_,     \* int num_keys_
  load_factor_,  \* double load_factor_, as a fraction <<n, d>>
  last,          \* the last call and what it returned
  written,       \* history: key -> the last value passed to Put for it, or None
  pure,          \* history: only Puts of pairwise distinct keys (and reads) so far
  live,          \* history: the keys Put and not passed to Remove since their last Put
  nputs,         \* history: the number of Put calls since construction
  scen           \* history: length of the matched prefix of ScenarioSteps, or -1

vars == <<pc, args, buckets_, num_keys_, load_factor_, last, written, pure, live,
          nputs, scen>>

\* ---------------------------------------------------------------- bounds
MaxKey == 2
MaxCap == 3
MaxPuts == 3

None == "none"
Keys == 0..MaxKey
Values == {"a", "b"}
Capacities == (-1)..MaxCap
LoadFactors == {<<-1, 2>>, <<0, 1>>, <<1, 2>>, <<3, 4>>, <<1, 1>>, <<5, 4>>}

\* the concrete scenario of the specification's section 8
ScenarioArgs == [capacity |-> 4, load_factor |-> <<3, 4>>]
ScenarioSteps == << <<1, "a">>, <<2, "b">>, <<3, "c">>, <<4, "d">> >>
ScenarioKeys == {ScenarioSteps[i][1] : i \in 1..Len(ScenarioSteps)}
ScenarioValues == {ScenarioSteps[i][2] : i \in 1..Len(ScenarioSteps)}

\* ------------------------------------------------------- pure functions
kGrowthCoefficient == 2

\* the value num_keys_ has when the constructor body starts
NumKeysInitial == 0

\* utils::hash(key, size): the key reduced modulo the number of buckets
\* (keys are non-negative here).  The result is a 0-based index.
hash(key, size) == key % size

capacity(b) == Len(b)

\* 1-based position of the first pair of `bucket` whose key is `key`, or 0
FindFirst(bucket, key) ==
  LET hits == {i \in 1..Len(bucket) : bucket[i][1] = key}
  IN IF hits = {} THEN 0 ELSE CHOOSE i \in hits : \A j \in hits : i <= j

BucketOf(b, key) == b[hash(key, capacity(b)) + 1]

\* a Search that forgets the key comparison of line 29
Search_NoKeyCheck(b, key) ==
  LET bucket == BucketOf(b, key)
  IN IF bucket = <<>> THEN None ELSE bucket[1][2]

\* HashTable::Search: linear search of the key's bucket
Search(b, key) ==
  LET bucket == BucketOf(b, key)
      i == FindFirst(bucket, key)
  IN IF i = 0 THEN None ELSE bucket[i][2]

ContainsKey(b, key) == Search(b, key) # None

\* lines 40-53 of Put: overwrite in place, or append to the key's bucket
PutPair(b, key, value) ==
  LET index == hash(key, capacity(b)) + 1
      i == FindFirst(b[index], key)
  IN IF i # 0
       THEN [b EXCEPT ![index] = [@ EXCEPT ![i] = <<key, value>>]]
       ELSE [b EXCEPT ![index] = Append(@, <<key, value>>)]

\* a growth test that compares with > where line 55 has >=
NeedsGrowth_Strict(n, cap, lf) == n * lf[2] > lf[1] * cap

\* line 55: static_cast<double>(num_keys_) / capacity() >= load_factor_
NeedsGrowth(n, cap, lf) == n * lf[2] >= lf[1] * cap

\* lines 58-63: the loop over the old buckets, from old bucket i on
RECURSIVE RehashFrom(_, _, _)
RehashFrom(old, new, i) ==
  IF i > Len(old) THEN new
  ELSE IF old[i] = <<>> THEN RehashFrom(old, new, i + 1)
  ELSE LET new_index == hash(old[i][1][1], Len(new)) + 1
       IN RehashFrom(old, [new EXCEPT ![new_index] = old[i]], i + 1)

\* a growth step that adds the coefficient to the capacity
Grow_AddsCoefficient(b) ==
  RehashFrom(b, [i \in 1..(capacity(b) + kGrowthCoefficient) |-> <<>>], 1)

\* lines 56-64: the growth step
Grow(b) ==
  RehashFrom(b, [i \in 1..(capacity(b) * kGrowthCoefficient) |-> <<>>], 1)

\* a Put that tests the load before line 54 has counted the new call
PutBuckets_TestBeforeIncrement(b, n, lf, key, value) ==
  LET b1 == PutPair(b, key, value)
  IN IF NeedsGrowth(n, capacity(b1), lf) THEN Grow(b1) ELSE b1

\* HashTable::Put, the buckets it leaves
PutBuckets(b, n, lf, key, value) ==
  LET b1 == PutPair(b, key, value)
  IN IF NeedsGrowth(n + 1, capacity(b1), lf) THEN Grow(b1) ELSE b1

\* a Put without line 54
PutNumKeys_NoIncrement(n) == n

\* HashTable::Put, the counter it leaves (line 54)
PutNumKeys(n) == n + 1

\* HashTable::Remove, the value it returns: the second of the first pair of
\* the key's bucket that has the key (lines 74-80, 83), or nullopt (line 85)
RemoveRet(b, key) ==
  LET bucket == b[hash(key, capacity(b)) + 1]
      i == FindFirst(bucket, key)
  IN IF i = 0 THEN None ELSE bucket[i][2]

\* a Remove that, on a miss, still erases from the bucket (its first pair)
RemoveBuckets_EraseOnMiss(b, key) ==
  LET index == hash(key, capacity(b)) + 1
      i == FindFirst(b[index], key)
      Keep(p) == p # b[index][IF i = 0 THEN 1 ELSE i]
  IN IF b[index] = <<>> THEN b ELSE [b EXCEPT ![index] = SelectSeq(@, Keep)]

\* HashTable::Remove, the buckets it leaves: std::list::remove drops every
\* element equal to the found pair (lines 81-82)
RemoveBuckets(b, key) ==
  LET index == hash(key, capacity(b)) + 1
      i == FindFirst(b[index], key)
  IN IF i = 0 THEN b
     ELSE LET pair_to_remove == b[index][i]
              Keep(p) == p # pair_to_remove
          IN [b EXCEPT ![index] = SelectSeq(@, Keep)]

size(n) == n
empty(n) == size(n) = 0

\* a constructor that also rejects a load factor of exactly 1.0
CtorThrows_RejectsOne(cap, lf) == cap <= 0 \/ lf[1] <= 0 \/ lf[1] >= lf[2]

\* constructor: the two argument checks of lines 12-18
CtorThrows(cap, lf) == cap <= 0 \/ lf[1] <= 0 \/ lf[1] > lf[2]

\* constructor, line 21: buckets_.resize(capacity)
CtorBuckets(cap) == [i \in 1..cap |-> <<>>]

\* ------------------------------------------------- observers of a table
RECURSIVE Flatten(_, _)
Flatten(b, i) == IF i > Len(b) THEN <<>> ELSE b[i] \o Flatten(b, i + 1)

\* every pair of the table, in bucket order (what keys() and values() walk)
AllPairs(b) == Flatten(b, 1)

keys(b) == {AllPairs(b)[i][1] : i \in 1..Len(AllPairs(b))}
values(b) == [i \in 1..Len(AllPairs(b)) |-> AllPairs(b)[i][2]]

\* --------------------------------------------------------------- actions
NoCall == [op |-> "none", key |-> -1, value |-> None, ret |-> None]

InitWith(A) ==
  /\ pc = "new"
  /\ args \in A
  /\ buckets_ = <<>>
  /\ num_keys_ = NumKeysInitial
  /\ load_factor_ = <<0, 1>>
  /\ last = NoCall
  /\ written = [k \in Keys \cup ScenarioKeys |-> None]
  /\ pure = TRUE
  /\ live = {}
  /\ nputs = 0
  /\ scen = -1

Init == InitWith([capacity : Capacities, load_factor : LoadFactors])

\* HashTable::HashTable(capacity, load_factor)
Construct ==
  /\ pc = "new"
  /\ last' = [NoCall EXCEPT !.op = "ctor"]
  /\ IF CtorThrows(args.capacity, args.load_factor)
       THEN /\ pc' = "threw"
            /\ UNCHANGED <<buckets_, num_keys_, load_factor_, scen>>
       ELSE /\ pc' = "ready"
            /\ buckets_' = CtorBuckets(args.capacity)
            /\ num_keys_' = NumKeysInitial
            /\ load_factor_' = args.load_factor
            /\ scen' = IF args = ScenarioArgs THEN 0 ELSE -1
  /\ UNCHANGED <<args, written, pure, live, nputs>>

\* HashTable::Put(key, value); at most `limit` Puts are explored
Put(key, value, limit) ==
  /\ pc = "ready"
  /\ num_keys_ < limit
  /\ buckets_' = PutBuckets(buckets_, num_keys_, load_factor_, key, value)
  /\ num_keys_' = PutNumKeys(num_keys_)
  /\ last' = [op |-> "Put", key |-> key, value |-> value, ret |-> None]
  /\ written' = [written EXCEPT ![key] = value]
  /\ pure' = (pure /\ written[key] = None)
  /\ live' = live \cup {key}
  /\ nputs' = nputs + 1
  /\ scen' = IF /\ scen >= 0
                /\ scen < Len(ScenarioSteps)
                /\ ScenarioSteps[scen + 1] = <<key, value>>
               THEN scen + 1 ELSE -1
  /\ UNCHANGED <<pc, args, load_factor_>>

\* HashTable::Remove(key)
Remove(key) ==
  /\ pc = "ready"
  /\ buckets_' = RemoveBuckets(buckets_, key)
  /\ last' = [op |-> "Remove", key |-> key, value |-> None,
              ret |-> RemoveRet(buckets_, key)]
  /\ pure' = FALSE
  /\ live' = live \ {key}
  /\ scen' = -1
  /\ UNCHANGED <<pc, args, num_keys_, load_factor_, written, nputs>>

\* HashTable::Search(key) const
SearchCall(key) ==
  /\ pc = "ready"
  /\ last' = [op |-> "Search", key |-> key, value |-> None,
              ret |-> Search(buckets_, key)]
  /\ UNCHANGED <<pc, args, buckets_, num_keys_, load_factor_, written, pure, live,
                 nputs, scen>>

NextOver(K, V, limit) ==
  \/ Construct
  \/ \E k \in K, v \in V : Put(k, v, limit)
  \/ \E k \in K : Remove(k)
  \/ \E k \in K : SearchCall(k)

Next == NextOver(Keys, Values, MaxPuts)

Spec == Init /\ [][Next]_vars

\* the section-8 scenario: one table built with (4, 0.75), keys 1..4, values a..d
ScenarioInit == InitWith({ScenarioArgs})
ScenarioNext == NextOver(ScenarioKeys, ScenarioValues, Len(ScenarioSteps))
SpecScenario == ScenarioInit /\ [][ScenarioNext]_vars

TypeOK ==
  /\ pc \in {"new", "ready", "threw"}
  /\ num_keys_ \in Nat
  /\ pc = "ready" => Len(buckets_) > 0

\* ----------------------------------------------------------------- claims
Ready == pc = "ready"
Table == <<buckets_, num_keys_, load_factor_>>
\* the step just taken is a call of `op` (every call sets `last`)
Called(op) == last'.op = op /\ vars' # vars
NeverPut(k) == written[k] = None
\* positions, in bucket order, of the pairs whose key is k
PairsWithKey(b, k) == {i \in 1..Len(AllPairs(b)) : AllPairs(b)[i][1] = k}
Grew == Ready /\ capacity(buckets_) > args.capacity

\* C1: after Puts of pairwise distinct keys on a fresh table (growths
\* included), Search finds every inserted key with the value written for it.
C1_DistinctPutsRetrievable ==
  (Ready /\ pure) =>
    \A k \in DOMAIN written : ~NeverPut(k) => Search(buckets_, k) = written[k]

\* C2: a Put that grows the table keeps Search(k) for every other key that
\* was found before it, and the key it puts is found with the new value.
C2_GrowthKeepsKeys ==
  [][(Called("Put") /\ Ready /\ capacity(buckets_') # capacity(buckets_)) =>
       /\ \A k \in DOMAIN written \ {last'.key} :
            Search(buckets_, k) # None => Search(buckets_', k) = Search(buckets_, k)
       /\ Search(buckets_', last'.key) = last'.value]_vars

\* C3: Put(k, v1) directly followed by Put(k, v2) leaves exactly one pair
\* with key k in the whole table, and its value is v2.
C3_PutTwiceOnePair ==
  [][(last.op = "Put" /\ Called("Put") /\ last'.key = last.key) =>
       /\ Cardinality(PairsWithKey(buckets_', last'.key)) = 1
       /\ \A i \in PairsWithKey(buckets_', last'.key) :
            AllPairs(buckets_')[i][2] = last'.value]_vars

\* C4: Put(k, v) directly followed by Remove(k) returns v, and a Search(k)
\* right after that Remove finds nothing.
C4_PutThenRemove ==
  [][(last.op = "Put" /\ Called("Remove") /\ last'.key = last.key) =>
       /\ last'.ret = last.value
       /\ Search(buckets_', last'.key) = None]_vars

\* C5: Remove of a key that was never Put returns "not found" and leaves
\* the buckets, the capacity and size() as they were.
C5_RemoveMissUnchanged ==
  [][(Called("Remove") /\ NeverPut(last'.key)) =>
       /\ last'.ret = None
       /\ buckets_' = buckets_
       /\ capacity(buckets_') = capacity(buckets_)
       /\ size(num_keys_') = size(num_keys_)
       /\ load_factor_' = load_factor_]_vars

\* C5 happens: a never-Put key was removed from a grown table, and the
\* bucket that Remove scanned holds other keys
C5_Witness ==
  /\ Grew /\ last.op = "Remove" /\ NeverPut(last.key) /\ last.ret = None
  /\ BucketOf(buckets_, last.key) # <<>>

\* C6: Search of a key that was never Put returns "not found", whatever
\* Puts, Removes and growths came before, and Search changes nothing.
C6_SearchMissNoEffect ==
  [][Called("Search") =>
       /\ NeverPut(last'.key) => last'.ret = None
       /\ Table' = Table]_vars

\* C6 happens: a never-Put key was searched in a grown table, after a
\* Remove, and the bucket that Search scanned holds other keys
C6_Witness ==
  /\ Grew /\ last.op = "Search" /\ NeverPut(last.key) /\ last.ret = None
  /\ ~pure /\ BucketOf(buckets_, last.key) # <<>>

\* C7: every key is in at most one pair of the whole table.
C7_KeysUnique ==
  \A k \in DOMAIN written : Cardinality(PairsWithKey(buckets_, k)) <= 1

\* C8: size() is the number of pairs stored in all buckets together.
C8_SizeIsPairCount == Ready => size(num_keys_) = Len(AllPairs(buckets_))

\* C9: the constructor fails, and builds no table, when capacity <= 0 or
\* load factor <= 0 or load factor > 1; otherwise (a load factor of exactly 1
\* included) it succeeds with `capacity` empty buckets and size() = 0.
C9_Construction ==
  [][pc = "new" =>
       LET c == args.capacity
           n == args.load_factor[1]
           d == args.load_factor[2]
       IN IF c <= 0 \/ n <= 0 \/ n > d
            THEN pc' = "threw" /\ buckets_' = <<>>
            ELSE /\ pc' = "ready"
                 /\ capacity(buckets_') = c
                 /\ \A i \in 1..c : buckets_'[i] = <<>>
                 /\ size(num_keys_') = 0
                 /\ load_factor_' = args.load_factor]_vars

\* C9 happens: a table was just built with a load factor of exactly 1.0
C9_Witness ==
  /\ Ready /\ last.op = "ctor" /\ args.load_factor = <<1, 1>>
  /\ capacity(buckets_) = MaxCap

ScenarioFound(n) ==
  \A i \in 1..n : Search(buckets_, ScenarioSteps[i][1]) = ScenarioSteps[i][2]

\* C10, as stated: on a table built with (4, 0.75), capacity() is still 4
\* after Put(1,"a"), Put(2,"b"), Put(3,"c") and the three keys are found; the
\* capacity becomes 8 during the fourth Put, Put(4,"d"), and not earlier.
C10_ScenarioAsStated ==
  /\ scen \in 0..3 => capacity(buckets_) = ScenarioArgs.capacity
  /\ scen = 3 => ScenarioFound(3)
  /\ scen = 4 => capacity(buckets_) = ScenarioArgs.capacity * kGrowthCoefficient

\* C10, amended: on a table built with (4, 0.75), capacity() is 4 up to and
\* after Put(1,"a"), Put(2,"b"); the growth to 8 happens during the third
\* Put, Put(3,"c") (3 / 4 >= 0.75), after which the three keys are found;
\* Put(4,"d") leaves the capacity at 8.
C10_ScenarioGrowsAtThirdPut ==
  /\ scen \in 0..2 => capacity(buckets_) = ScenarioArgs.capacity
  /\ scen = 3 => /\ capacity(buckets_) = ScenarioArgs.capacity * kGrowthCoefficient
                 /\ ScenarioFound(3)
  /\ scen = 4 => capacity(buckets_) = ScenarioArgs.capacity * kGrowthCoefficient

\* C10 happens: the four Puts of the scenario have run, in order
C10_Witness == scen = 4 /\ last.op = "Put" /\ last.key = 4 /\ num_keys_ = 4

\* number of positions of seq that hold x
Count(seq, x) == Cardinality({i \in 1..Len(seq) : seq[i] = x})
\* seq and other hold the same elements, each as many times
SameBag(seq, other) ==
  /\ Len(seq) = Len(other)
  /\ \A i \in 1..Len(seq) : Count(seq, seq[i]) = Count(other, seq[i])
AllValues == Values \cup ScenarioValues
\* the buckets of the Put just taken, right before its growth test (line 55)
BeforeGrowth == PutPair(buckets_, last'.key, last'.value)
PutGrew == Called("Put") /\ capacity(buckets_') # capacity(buckets_)

\* C11: keys() is exactly the set of keys Put and not removed since their
\* last Put, and values() holds exactly the current values of those keys,
\* one element per key.
C11_KeysAndValues ==
  Ready =>
    /\ keys(buckets_) = live
    /\ Len(values(buckets_)) = Cardinality(live)
    /\ \A v \in AllValues :
         Count(values(buckets_), v) = Cardinality({k \in live : written[k] = v})

\* C12: empty() is true exactly when the table holds no keys: none was
\* inserted, or every inserted key has been removed since.
C12_EmptyIffNoKeys == Ready => (empty(num_keys_) <=> live = {})

\* C13: a Put changes the capacity iff, after its counter increment,
\* count / capacity >= loadFactor; the capacity is then the old one times the
\* growth coefficient (one growth step), and is unchanged otherwise.
C13_GrowthExactlyWhenLoaded ==
  [][Called("Put") =>
       LET c == capacity(buckets_)
           count == size(num_keys_) + 1
       IN IF count * load_factor_[2] >= load_factor_[1] * c
            THEN capacity(buckets_') = c * kGrowthCoefficient
            ELSE capacity(buckets_') = c]_vars

\* C13 happens: the first Put left the capacity alone, the second doubled it
C13_Witness ==
  /\ Ready /\ last.op = "Put" /\ nputs = 2
  /\ ~(1 * load_factor_[2] >= load_factor_[1] * args.capacity)
  /\ capacity(buckets_) = args.capacity * kGrowthCoefficient

\* C14: size() is the number of Put calls since construction: a Put adds
\* one whether its key was new or present, a Remove adds nothing.
C14_SizeCountsPuts == Ready => size(num_keys_) = nputs

\* C14 happens: one key was Put three times and then removed
C14_Witness ==
  /\ Ready /\ nputs = 3 /\ last.op = "Remove" /\ last.ret # None
  /\ Cardinality({k \in DOMAIN written : ~NeverPut(k)}) = 1
  /\ AllPairs(buckets_) = <<>>

\* C15: capacity() is always positive and never decreases: Remove and
\* Search leave it unchanged, Put leaves it unchanged or doubles it.
C15_CapacityMonotone ==
  [][/\ pc' = "ready" => capacity(buckets_') > 0
     /\ Ready =>
          LET c == capacity(buckets_)
              c1 == capacity(buckets_')
          IN /\ c1 >= c
             /\ (Called("Remove") \/ Called("Search")) => c1 = c
             /\ Called("Put") => c1 \in {c, 2 * c}]_vars

\* C15 happens: a table that grew twice, then a Remove that found its key
C15_Witness ==
  /\ Ready /\ last.op = "Remove" /\ last.ret # None
  /\ capacity(buckets_) = 4 * args.capacity

\* C16: a growth step moves every non-empty old bucket whole, its pairs in
\* the same order, to the new index that the key of its first pair hashes to
\* under the new capacity.
C16_BucketsMoveWhole ==
  [][PutGrew =>
       \A i \in 1..Len(BeforeGrowth) :
         BeforeGrowth[i] # <<>> =>
           buckets_'[hash(BeforeGrowth[i][1][1], capacity(buckets_')) + 1]
             = BeforeGrowth[i]]_vars

\* C17: a growth step neither loses nor duplicates a pair: the pairs of all
\* buckets right after it are those right before it.
C17_GrowthKeepsPairs ==
  [][PutGrew => SameBag(AllPairs(buckets_'), AllPairs(BeforeGrowth))]_vars

\* C18: every stored pair is in the bucket its key hashes to under the
\* current capacity, so a key is in keys() iff ContainsKey finds it.
C18_PairsInOwnBucket ==
  Ready =>
    /\ \A i \in 1..Len(buckets_) : \A j \in 1..Len(buckets_[i]) :
         hash(buckets_[i][j][1], capacity(buckets_)) + 1 = i
    /\ \A k \in DOMAIN written : k \in keys(buckets_) <=> ContainsKey(buckets_, k)

LoadBelowThreshold ==
  size(num_keys_) * load_factor_[2] < load_factor_[1] * capacity(buckets_)

\* C19, as stated: between operations size() / capacity() < loadFactor, for
\* every valid initial capacity and load factor.
C19_LoadBelowThreshold == Ready => LoadBelowThreshold

\* C19, amended: between operations size() / capacity() < loadFactor, for
\* every table built with capacity * loadFactor > 1/2.
C19_LoadBelowThresholdFromHalf ==
  (Ready /\ 2 * args.capacity * args.load_factor[1] > args.load_factor[2])
    => LoadBelowThreshold

\* C19 happens: a table built with capacity * loadFactor > 1/2 has grown
\* twice, and a Put has just returned
C19_Witness ==
  /\ Ready /\ last.op = "Put" /\ nputs >= 2
  /\ 2 * args.capacity * args.load_factor[1] > args.load_factor[2]
  /\ capacity(buckets_) = 4 * args.capacity

====
